---- MODULE Spec2Model ----
(***************************************************************************)
(* A model of LucyGPT/make_data.py: the corpus chunking and prompt/response *)
(* pair synthesis pipeline (clean_text, paragraphs, join_paras, make_pairs  *)
(* and the record loop of main), and of backend/server.py: the handlers of  *)
(* registration, of the study plans and of the payments, each a sequence of *)
(* steps between its awaits.                                                *)
(*                                                                          *)
(* Strings are sequences of integer units.  The whitespace units are the    *)
(* code points of the whitespace characters.  In the text-level             *)
(* specification (SpecText) every other unit is one character; in the       *)
(* word-level specifications every other unit is one whole word, so that a  *)
(* 420-word chunk is 420 word units separated by 419 space units.           *)
(***************************************************************************)
EXTENDS Integers, Sequences, FiniteSets, Bags

VARIABLES
    cfg,        \* the module-level thresholds, lines 5-11
    pc,         \* position of the run in main (or in the function applied)
    raw,        \* main: raw
    text,       \* main: text
    paras,      \* main: paras
    pi,         \* join_paras: index of the next paragraph of `for p in paras`
    buf_words,  \* join_paras: buf_words
    chunks,     \* join_paras: chunks, then main: chunks
    ci,         \* main: index of the next chunk of `for ch in chunks`
    ch,         \* the chunk last given to make_pairs
    cut,        \* make_pairs: the cut last drawn (0: none drawn)
    pairs,      \* main: pairs, the last result of make_pairs
    records,    \* main: records
    out,        \* the lines written to OUT
    diag,       \* whether the zero-record diagnostic of line 115 was printed
    rnd         \* the uses made so far of the process-wide random source,
                \* each with what it returned

\* backend/server.py
VARIABLES
    users,                  \* db.users, in insertion order
    study_plans,            \* db.study_plans
    payment_transactions,   \* db.payment_transactions
    stripe,                 \* the payment provider: the status of each
                            \* checkout session, the i-th being session i
    reqs,                   \* the requests being handled, with their locals
    nreq,                   \* how many requests have arrived
    resp                    \* the response sent last

pipeline == <<cfg, pc, raw, text, paras, pi, buf_words, chunks, ci, ch, cut,
              pairs, records, out, diag, rnd>>

server == <<users, study_plans, payment_transactions, stripe, reqs, nreq,
            resp>>

vars == <<pipeline, server>>

----------------------------------------------------------------------------
(* Program constants *)

MAX_RECORDS == 1200
MIN_CHUNK_WORDS == 260
MAX_CHUNK_WORDS == 420
MIN_PROMPT_WORDS == 90
MIN_RESPONSE_WORDS == 60
MAX_RESPONSE_WORDS == 220

CR == 13
LF == 10
SP == 32
TAB == 9

\* The characters str.strip() and str.split() treat as whitespace (ASCII part).
Whitespace == {9, 10, 11, 12, 13, 28, 29, 30, 31, 32}

\* PROMPTS: each template is one indivisible unit of a string.
PROMPTS == <<201, 202, 203, 204, 205>>

\* The thresholds as the source sets them.
Default ==
    [MAX_RECORDS |-> MAX_RECORDS,
     MIN_CHUNK_WORDS |-> MIN_CHUNK_WORDS,
     MAX_CHUNK_WORDS |-> MAX_CHUNK_WORDS,
     MIN_PROMPT_WORDS |-> MIN_PROMPT_WORDS,
     MIN_RESPONSE_WORDS |-> MIN_RESPONSE_WORDS,
     MAX_RESPONSE_WORDS |-> MAX_RESPONSE_WORDS]

----------------------------------------------------------------------------
(* Bounds of the model *)

MaxPieces == 5

----------------------------------------------------------------------------
(* Generic helpers *)

Min(a, b) == IF a <= b THEN a ELSE b

\* The indices of s, in order.
Indices(s) == [i \in 1..Len(s) |-> i]

\* The units of s at the indices idx, in that order.
Pick(s, idx) == [k \in 1..Len(idx) |-> s[idx[k]]]

----------------------------------------------------------------------------
(* clean_text, lines 21-25 *)

\* t.replace("\r\n", "\n"): a CR directly followed by LF disappears.
Replace_CRLF(t) ==
    Pick(t, SelectSeq(Indices(t),
                      LAMBDA i : ~(t[i] = CR /\ i < Len(t) /\ t[i + 1] = LF)))

\* .replace("\r", "\n")
Replace_CR(t) == [i \in 1..Len(t) |-> IF t[i] = CR THEN LF ELSE t[i]]

\* re.sub(r"[ \t]+", " ", t): of every maximal run of spaces and tabs one
\* unit remains, and it is a space.
Sub_Blanks(t) ==
    LET u == Pick(t, SelectSeq(Indices(t),
                               LAMBDA i : ~(t[i] \in {SP, TAB} /\ i > 1
                                            /\ t[i - 1] \in {SP, TAB})))
    IN  [i \in 1..Len(u) |-> IF u[i] = TAB THEN SP ELSE u[i]]

\* re.sub(r"\n{3,}", "\n\n", t): of every maximal run of three or more
\* newlines the first two remain.
Sub_Newlines(t) ==
    Pick(t, SelectSeq(Indices(t),
                      LAMBDA i : ~(t[i] = LF /\ i > 2 /\ t[i - 1] = LF
                                   /\ t[i - 2] = LF)))

RECURSIVE LStripIdx(_, _)
LStripIdx(s, i) ==
    IF i > Len(s) \/ s[i] \notin Whitespace THEN i ELSE LStripIdx(s, i + 1)

RECURSIVE RStripIdx(_, _)
RStripIdx(s, i) ==
    IF i < 1 \/ s[i] \notin Whitespace THEN i ELSE RStripIdx(s, i - 1)

\* str.strip()
strip(s) == SubSeq(s, LStripIdx(s, 1), RStripIdx(s, Len(s)))

\* clean_text with the newline runs collapsed before the line endings are unified.
clean_text_swapped(t) ==
    strip(Replace_CR(Replace_CRLF(Sub_Newlines(Sub_Blanks(t)))))

\* clean_text without the final strip.
clean_text_nostrip(t) ==
    Sub_Newlines(Sub_Blanks(Replace_CR(Replace_CRLF(t))))

clean_text(t) == strip(Sub_Newlines(Sub_Blanks(Replace_CR(Replace_CRLF(t)))))

----------------------------------------------------------------------------
(* paragraphs, lines 27-30 *)

\* text.split("\n\n"): cut at the leftmost separator, then split the rest.
RECURSIVE split_blank(_)
split_blank(s) ==
    LET at == {i \in 1..(Len(s) - 1) : s[i] = LF /\ s[i + 1] = LF}
    IN  IF at = {} THEN <<s>>
        ELSE LET i == CHOOSE j \in at : \A k \in at : j <= k
             IN  <<SubSeq(s, 1, i - 1)>> \o split_blank(SubSeq(s, i + 2, Len(s)))

\* paragraphs with the floor tested by > instead of >=.
paragraphs_gt(t) ==
    LET parts == split_blank(t)
        stripped == [k \in 1..Len(parts) |-> strip(parts[k])]
        nonempty == SelectSeq(stripped, LAMBDA p : p # <<>>)
    IN  SelectSeq(nonempty, LAMBDA p : Len(p) > 80)

paragraphs(t) ==
    LET parts == split_blank(t)
        stripped == [k \in 1..Len(parts) |-> strip(parts[k])]
        nonempty == SelectSeq(stripped, LAMBDA p : p # <<>>)
    IN  SelectSeq(nonempty, LAMBDA p : Len(p) >= 80)

----------------------------------------------------------------------------
(* main, lines 76-79: read, normalize, extract *)

A79 == [i \in 1..79 |-> 97]
B80 == [i \in 1..80 |-> 98]

\* What a raw corpus is built from: single characters and two long words.
Pieces == {<<CR>>, <<LF>>, <<SP>>, <<TAB>>, <<98>>, A79, B80}

RECURSIVE Flatten(_)
Flatten(ss) == IF ss = <<>> THEN <<>> ELSE Head(ss) \o Flatten(Tail(ss))

RawTexts == {Flatten(f) : f \in UNION {[1..n -> Pieces] : n \in 0..MaxPieces}}

\* No request has reached the server.
NoResponse == [op |-> "none", arg |-> 0, is_premium |-> FALSE, status |-> 0,
               body |-> <<>>]

NoServer ==
    /\ users = <<>>
    /\ study_plans = <<>>
    /\ payment_transactions = <<>>
    /\ stripe = <<>>
    /\ reqs = EmptyBag
    /\ nreq = 0
    /\ resp = NoResponse

InitText ==
    /\ cfg = Default
    /\ pc = "read"
    /\ raw \in RawTexts
    /\ text = <<>>
    /\ paras = <<>>
    /\ pi = 1
    /\ buf_words = <<>>
    /\ chunks = <<>>
    /\ ci = 1
    /\ ch = <<>>
    /\ cut = 0
    /\ pairs = <<>>
    /\ records = <<>>
    /\ out = <<>>
    /\ diag = FALSE
    /\ rnd = <<>>
    /\ NoServer

\* line 77
CleanText ==
    /\ pc = "read"
    /\ text' = clean_text(raw)
    /\ pc' = "clean"
    /\ UNCHANGED <<server, cfg, raw, paras, pi, buf_words, chunks, ci, ch, cut, pairs,
                   records, out, diag, rnd>>

\* line 79
Paragraphs ==
    /\ pc = "clean"
    /\ paras' = paragraphs(text)
    /\ pc' = "shuffle_paras"
    /\ UNCHANGED <<server, cfg, raw, text, pi, buf_words, chunks, ci, ch, cut, pairs,
                   records, out, diag, rnd>>

NextText == CleanText \/ Paragraphs

SpecText == InitText /\ [][NextText]_vars

----------------------------------------------------------------------------
(* Word-level strings *)

\* The j-th word of the k-th paragraph of the corpus: all words are distinct.
Word(k, j) == k * 1000 + j

\* " ".join(words)
join_sp(words) ==
    [i \in 1..(2 * Len(words) - 1) |->
        IF i % 2 = 1 THEN words[(i + 1) \div 2] ELSE SP]

\* str.split() of a word-level string, where every non-whitespace unit is a
\* whole word and whitespace separates any two of them.
split_ws(s) == SelectSeq(s, LAMBDA u : u \notin Whitespace)

\* words[a:b] of Python, a and b counted from 0 and clamped to the list.
Slice(words, a, b) == SubSeq(words, a + 1, Min(b, Len(words)))

\* Thresholds of the scenarios the specification works through, beside the
\* source's own.
ScenarioA == [Default EXCEPT !.MIN_CHUNK_WORDS = 150, !.MAX_CHUNK_WORDS = 200]
ScenarioB == [Default EXCEPT !.MAX_CHUNK_WORDS = 400]
CapOne == [Default EXCEPT !.MAX_RECORDS = 1]

\* The corpus whose k-th paragraph has lens[k] words.
ParasOf(lens) ==
    [k \in 1..Len(lens) |-> join_sp([j \in 1..lens[k] |-> Word(k, j)])]

SeqsUpTo(S, n) == UNION {[1..m -> S] : m \in 0..n}

----------------------------------------------------------------------------
(* join_paras, lines 32-54: one action per iteration of `for p in paras` *)

\* JoinOversize, but the rest of the oversized paragraph is carried over.
JoinOversize_carry ==
    /\ pc = "join"
    /\ pi <= Len(paras)
    /\ LET w == split_ws(paras[pi])
       IN  /\ Len(w) >= cfg.MAX_CHUNK_WORDS
           /\ chunks' =
                Append(IF Len(buf_words) >= cfg.MIN_CHUNK_WORDS
                       THEN Append(chunks, join_sp(buf_words))
                       ELSE chunks,
                       join_sp(Slice(w, 0, cfg.MAX_CHUNK_WORDS)))
           /\ buf_words' = Slice(w, cfg.MAX_CHUNK_WORDS, Len(w))
    /\ pi' = pi + 1
    /\ UNCHANGED <<server, cfg, pc, raw, text, paras, ci, ch, cut, pairs, records,
                   out, diag, rnd>>

\* JoinOversize, but the pending words are emitted however few they are.
JoinOversize_flushall ==
    /\ pc = "join"
    /\ pi <= Len(paras)
    /\ LET w == split_ws(paras[pi])
       IN  /\ Len(w) >= cfg.MAX_CHUNK_WORDS
           /\ chunks' =
                Append(Append(chunks, join_sp(buf_words)),
                       join_sp(Slice(w, 0, cfg.MAX_CHUNK_WORDS)))
           /\ buf_words' = <<>>
    /\ pi' = pi + 1
    /\ UNCHANGED <<server, cfg, pc, raw, text, paras, ci, ch, cut, pairs,
                   records, out, diag, rnd>>

\* lines 38-43
JoinOversize ==
    /\ pc = "join"
    /\ pi <= Len(paras)
    /\ LET w == split_ws(paras[pi])
       IN  /\ Len(w) >= cfg.MAX_CHUNK_WORDS
           /\ chunks' =
                Append(IF Len(buf_words) >= cfg.MIN_CHUNK_WORDS
                       THEN Append(chunks, join_sp(buf_words))
                       ELSE chunks,
                       join_sp(Slice(w, 0, cfg.MAX_CHUNK_WORDS)))
           /\ buf_words' = <<>>
    /\ pi' = pi + 1
    /\ UNCHANGED <<server, cfg, pc, raw, text, paras, ci, ch, cut, pairs, records,
                   out, diag, rnd>>

\* JoinAppend, but the whole accumulator is emitted.
JoinAppend_noclamp ==
    /\ pc = "join"
    /\ pi <= Len(paras)
    /\ LET w == split_ws(paras[pi])
           buf == buf_words \o w
       IN  /\ Len(w) < cfg.MAX_CHUNK_WORDS
           /\ IF Len(buf) >= cfg.MIN_CHUNK_WORDS
              THEN /\ chunks' = Append(chunks, join_sp(buf))
                   /\ buf_words' = Slice(buf, cfg.MAX_CHUNK_WORDS, Len(buf))
              ELSE /\ chunks' = chunks
                   /\ buf_words' = buf
    /\ pi' = pi + 1
    /\ UNCHANGED <<server, cfg, pc, raw, text, paras, ci, ch, cut, pairs, records,
                   out, diag, rnd>>

\* JoinAppend, but the accumulator is emitted only once it reaches the maximum.
JoinAppend_maxtest ==
    /\ pc = "join"
    /\ pi <= Len(paras)
    /\ LET w == split_ws(paras[pi])
           buf == buf_words \o w
       IN  /\ Len(w) < cfg.MAX_CHUNK_WORDS
           /\ IF Len(buf) >= cfg.MAX_CHUNK_WORDS
              THEN /\ chunks' =
                        Append(chunks,
                               join_sp(Slice(buf, 0, cfg.MAX_CHUNK_WORDS)))
                   /\ buf_words' = Slice(buf, cfg.MAX_CHUNK_WORDS, Len(buf))
              ELSE /\ chunks' = chunks
                   /\ buf_words' = buf
    /\ pi' = pi + 1
    /\ UNCHANGED <<server, cfg, pc, raw, text, paras, ci, ch, cut, pairs, records,
                   out, diag, rnd>>

\* JoinAppend, but the accumulator is cleared on every emit.
JoinAppend_clear ==
    /\ pc = "join"
    /\ pi <= Len(paras)
    /\ LET w == split_ws(paras[pi])
           buf == buf_words \o w
       IN  /\ Len(w) < cfg.MAX_CHUNK_WORDS
           /\ IF Len(buf) >= cfg.MIN_CHUNK_WORDS
              THEN /\ chunks' =
                        Append(chunks,
                               join_sp(Slice(buf, 0, cfg.MAX_CHUNK_WORDS)))
                   /\ buf_words' = <<>>
              ELSE /\ chunks' = chunks
                   /\ buf_words' = buf
    /\ pi' = pi + 1
    /\ UNCHANGED <<server, cfg, pc, raw, text, paras, ci, ch, cut, pairs,
                   records, out, diag, rnd>>

\* JoinAppend, but the emitted words stay in the accumulator.
JoinAppend_keepall ==
    /\ pc = "join"
    /\ pi <= Len(paras)
    /\ LET w == split_ws(paras[pi])
           buf == buf_words \o w
       IN  /\ Len(w) < cfg.MAX_CHUNK_WORDS
           /\ IF Len(buf) >= cfg.MIN_CHUNK_WORDS
              THEN /\ chunks' =
                        Append(chunks,
                               join_sp(Slice(buf, 0, cfg.MAX_CHUNK_WORDS)))
                   /\ buf_words' = buf
              ELSE /\ chunks' = chunks
                   /\ buf_words' = buf
    /\ pi' = pi + 1
    /\ UNCHANGED <<server, cfg, pc, raw, text, paras, ci, ch, cut, pairs,
                   records, out, diag, rnd>>

\* lines 45-49
JoinAppend ==
    /\ pc = "join"
    /\ pi <= Len(paras)
    /\ LET w == split_ws(paras[pi])
           buf == buf_words \o w
       IN  /\ Len(w) < cfg.MAX_CHUNK_WORDS
           /\ IF Len(buf) >= cfg.MIN_CHUNK_WORDS
              THEN /\ chunks' =
                        Append(chunks,
                               join_sp(Slice(buf, 0, cfg.MAX_CHUNK_WORDS)))
                   /\ buf_words' = Slice(buf, cfg.MAX_CHUNK_WORDS, Len(buf))
              ELSE /\ chunks' = chunks
                   /\ buf_words' = buf
    /\ pi' = pi + 1
    /\ UNCHANGED <<server, cfg, pc, raw, text, paras, ci, ch, cut, pairs, records,
                   out, diag, rnd>>

\* lines 51-54
JoinFinish ==
    /\ pc = "join"
    /\ pi > Len(paras)
    /\ chunks' = IF Len(buf_words) >= cfg.MIN_CHUNK_WORDS
                 THEN Append(chunks, join_sp(buf_words))
                 ELSE chunks
    /\ pc' = "shuffle_chunks"
    /\ UNCHANGED <<server, cfg, raw, text, paras, pi, buf_words, ci, ch, cut, pairs,
                   records, out, diag, rnd>>

MaxJoinParas == 3

JoinWordCounts == {90, 130, 200, 300, 420, 500}

InitJoin ==
    /\ cfg \in {Default, ScenarioA, ScenarioB}
    /\ pc = "join"
    /\ raw = <<>>
    /\ text = <<>>
    /\ paras \in {ParasOf(lens) : lens \in SeqsUpTo(JoinWordCounts, MaxJoinParas)}
    /\ pi = 1
    /\ buf_words = <<>>
    /\ chunks = <<>>
    /\ ci = 1
    /\ ch = <<>>
    /\ cut = 0
    /\ pairs = <<>>
    /\ records = <<>>
    /\ out = <<>>
    /\ diag = FALSE
    /\ rnd = <<>>
    /\ NoServer

NextJoin == JoinOversize \/ JoinAppend \/ JoinFinish

SpecJoin == InitJoin /\ [][NextJoin]_vars

----------------------------------------------------------------------------
(* make_pairs, lines 56-73; the outcome of random.randint is its argument c *)

\* line 61
cut_min == cfg.MIN_PROMPT_WORDS

\* cut_max with a ceiling of 70%.
cut_max_70(words) ==
    Min(Len(words) - cfg.MIN_RESPONSE_WORDS, (Len(words) * 70) \div 100)

\* cut_max without either ceiling.
cut_max_wide(words) == Len(words)

\* cut_max with a ceiling of 30%.
cut_max_30(words) ==
    Min(Len(words) - cfg.MIN_RESPONSE_WORDS, (Len(words) * 30) \div 100)

\* line 62. int(n * 0.60) of the double product equals (n * 60) \div 100 for
\* every n up to 3000 at least.
cut_max(words) ==
    Min(Len(words) - cfg.MIN_RESPONSE_WORDS, (Len(words) * 60) \div 100)

\* NoCut without the test of lines 63-64.
NoCut_lenonly(words) ==
    Len(words) < cfg.MIN_PROMPT_WORDS + cfg.MIN_RESPONSE_WORDS

\* lines 58-64: the chunk is given up before any cut is drawn.
NoCut(words) ==
    \/ Len(words) < cfg.MIN_PROMPT_WORDS + cfg.MIN_RESPONSE_WORDS
    \/ cut_max(words) <= cut_min

\* One use of the random source: the call made and what the stream gave it.
Draw(use, d) == [use |-> use, draw |-> d]

\* line 66: what random.randint(cut_min, cut_max) may return.
CutDraws(words) == cut_min..cut_max(words)

\* PairAt, but the response is all the words from the cut on.
PairAt_rest(words, c) ==
    LET prompt_part == strip(join_sp(Slice(words, 0, c)))
        resp_part == strip(join_sp(Slice(words, c, Len(words))))
    IN  IF Len(split_ws(resp_part)) < cfg.MIN_RESPONSE_WORDS
        THEN <<>>
        ELSE << <<prompt_part, resp_part>> >>

\* lines 67-73
PairAt(words, c) ==
    LET prompt_part == strip(join_sp(Slice(words, 0, c)))
        resp_part == strip(join_sp(Slice(words, c, c + cfg.MAX_RESPONSE_WORDS)))
    IN  IF Len(split_ws(resp_part)) < cfg.MIN_RESPONSE_WORDS
        THEN <<>>
        ELSE << <<prompt_part, resp_part>> >>

make_pairs(chunk, c) ==
    LET words == split_ws(chunk)
    IN  IF NoCut(words) THEN <<>> ELSE PairAt(words, c)

MaxPairWords == 430

InitPairs ==
    /\ cfg = Default
    /\ pc = "make_pairs"
    /\ raw = <<>>
    /\ text = <<>>
    /\ paras = <<>>
    /\ pi = 1
    /\ buf_words = <<>>
    /\ chunks = <<>>
    /\ ci = 1
    /\ ch \in {join_sp([j \in 1..n |-> Word(1, j)]) : n \in 0..MaxPairWords}
    /\ cut = 0
    /\ pairs = <<>>
    /\ records = <<>>
    /\ out = <<>>
    /\ diag = FALSE
    /\ rnd = <<>>
    /\ NoServer

\* One call make_pairs(ch) that returns at line 59 or 64.
MakePairsNoCut ==
    /\ pc = "make_pairs"
    /\ NoCut(split_ws(ch))
    /\ pairs' = make_pairs(ch, 0)
    /\ pc' = "returned"
    /\ UNCHANGED <<server, cfg, raw, text, paras, pi, buf_words, chunks, ci, ch, cut,
                   records, out, diag, rnd>>

\* One call make_pairs(ch) that reaches line 66 and draws a cut.
MakePairsCut ==
    /\ pc = "make_pairs"
    /\ ~NoCut(split_ws(ch))
    /\ IF CutDraws(split_ws(ch)) = {}
       THEN /\ pc' = "error"
            /\ UNCHANGED <<server, cut, pairs, rnd>>
       ELSE \E c \in CutDraws(split_ws(ch)) :
                /\ cut' = c
                /\ pairs' = make_pairs(ch, c)
                /\ rnd' = Append(rnd, Draw("cut", c))
                /\ pc' = "returned"
    /\ UNCHANGED <<server, cfg, raw, text, paras, pi, buf_words, chunks, ci, ch,
                   records, out, diag>>

NextPairs == MakePairsNoCut \/ MakePairsCut

SpecPairs == InitPairs /\ [][NextPairs]_vars

----------------------------------------------------------------------------
(* main, lines 85-115 *)

\* The rearrangements random.shuffle may make of a list of n elements: the
\* element left at place i is the one that was at place f[i].
Bijections(n) ==
    {g \in [1..n -> 1..n] : \A a, b \in 1..n : g[a] = g[b] => a = b}

Permute(s, f) == [i \in 1..Len(s) |-> s[f[i]]]

\* What random.shuffle may leave in a list.
Perms(s) == {Permute(s, f) : f \in Bijections(Len(s))}

\* line 85
ShuffleParas ==
    /\ pc = "shuffle_paras"
    /\ \E f \in Bijections(Len(paras)) :
            /\ paras' = Permute(paras, f)
            /\ rnd' = Append(rnd, Draw("shuffle_paras", f))
    /\ pc' = "join"
    /\ UNCHANGED <<server, cfg, raw, text, pi, buf_words, chunks, ci, ch, cut, pairs,
                   records, out, diag>>

\* ShuffleChunks, but the order of the chunks is not the one the random
\* stream gives.
ShuffleChunks_free ==
    /\ pc = "shuffle_chunks"
    /\ records' = <<>>
    /\ chunks' \in Perms(chunks)
    /\ \E f \in Bijections(Len(chunks)) :
            rnd' = Append(rnd, Draw("shuffle_chunks", f))
    /\ pc' = "loop"
    /\ UNCHANGED <<server, cfg, raw, text, paras, pi, buf_words, ci, ch, cut, pairs,
                   out, diag>>

\* lines 92-93
ShuffleChunks ==
    /\ pc = "shuffle_chunks"
    /\ records' = <<>>
    /\ \E f \in Bijections(Len(chunks)) :
            /\ chunks' = Permute(chunks, f)
            /\ rnd' = Append(rnd, Draw("shuffle_chunks", f))
    /\ pc' = "loop"
    /\ UNCHANGED <<server, cfg, raw, text, paras, pi, buf_words, ci, ch, cut, pairs,
                   out, diag>>

\* Record with a single newline between the template and the prompt span.
Record_oneline(pair, t) ==
    [prompt |-> <<PROMPTS[t]>> \o <<LF>> \o pair[1], response |-> pair[2]]

\* lines 98-101: the record of one pair under the template drawn.
Record(pair, t) ==
    [prompt |-> <<PROMPTS[t]>> \o <<LF, LF>> \o pair[1], response |-> pair[2]]

\* AfterChunk without the break of lines 102-105.
AfterChunk_nobreak(recs) == "loop"

\* AfterChunk, but the loop is left only once the cap is exceeded.
AfterChunk_late(recs) == IF Len(recs) > cfg.MAX_RECORDS THEN "write" ELSE "loop"

\* lines 102-105: where the run goes after one chunk.
AfterChunk(recs) == IF Len(recs) >= cfg.MAX_RECORDS THEN "write" ELSE "loop"

\* The cuts the run of main draws in the model: the two ends of the range.
MainCutDraws(words) == {c \in CutDraws(words) : c = cut_min \/ c = cut_max(words)}

\* lines 95-105, one iteration whose make_pairs returns before drawing.
LoopNoCut ==
    /\ pc = "loop"
    /\ ci <= Len(chunks)
    /\ NoCut(split_ws(chunks[ci]))
    /\ ch' = chunks[ci]
    /\ pairs' = make_pairs(chunks[ci], 0)
    /\ records' = records
    /\ ci' = ci + 1
    /\ pc' = AfterChunk(records')
    /\ UNCHANGED <<server, cfg, raw, text, paras, pi, buf_words, chunks, cut, out,
                   diag, rnd>>

\* LoopCut, but the template is drawn before the cut.
LoopCut_templatefirst ==
    /\ pc = "loop"
    /\ ci <= Len(chunks)
    /\ ~NoCut(split_ws(chunks[ci]))
    /\ ch' = chunks[ci]
    /\ IF CutDraws(split_ws(chunks[ci])) = {}
       THEN /\ pc' = "error"
            /\ UNCHANGED <<cut, pairs, records, ci, rnd>>
       ELSE \E c \in MainCutDraws(split_ws(chunks[ci])) :
                /\ cut' = c
                /\ pairs' = make_pairs(chunks[ci], c)
                /\ IF pairs' = <<>>
                   THEN /\ records' = records
                        /\ rnd' = Append(rnd, Draw("cut", c))
                   ELSE \E t \in 1..Len(PROMPTS) :
                            /\ records' = Append(records, Record(pairs'[1], t))
                            /\ rnd' = rnd \o <<Draw("template", t),
                                              Draw("cut", c)>>
                /\ ci' = ci + 1
                /\ pc' = AfterChunk(records')
    /\ UNCHANGED <<server, cfg, raw, text, paras, pi, buf_words, chunks, out,
                   diag>>

\* lines 95-105, one iteration whose make_pairs draws a cut.
LoopCut ==
    /\ pc = "loop"
    /\ ci <= Len(chunks)
    /\ ~NoCut(split_ws(chunks[ci]))
    /\ ch' = chunks[ci]
    /\ IF CutDraws(split_ws(chunks[ci])) = {}
       THEN /\ pc' = "error"
            /\ UNCHANGED <<server, cut, pairs, records, ci, rnd>>
       ELSE \E c \in MainCutDraws(split_ws(chunks[ci])) :
                /\ cut' = c
                /\ pairs' = make_pairs(chunks[ci], c)
                /\ IF pairs' = <<>>
                   THEN /\ records' = records
                        /\ rnd' = Append(rnd, Draw("cut", c))
                   ELSE \E t \in 1..Len(PROMPTS) :
                            /\ records' = Append(records, Record(pairs'[1], t))
                            /\ rnd' = rnd \o <<Draw("cut", c),
                                              Draw("template", t)>>
                /\ ci' = ci + 1
                /\ pc' = AfterChunk(records')
    /\ UNCHANGED <<server, cfg, raw, text, paras, pi, buf_words, chunks, out, diag>>

\* line 95: the chunks are exhausted.
LoopEnd ==
    /\ pc = "loop"
    /\ ci > Len(chunks)
    /\ pc' = "write"
    /\ UNCHANGED <<server, cfg, raw, text, paras, pi, buf_words, chunks, ci, ch, cut,
                   pairs, records, out, diag, rnd>>

\* json.dumps of a string, ensure_ascii=False: a newline is written as the
\* two characters backslash and n, every other unit as it is.
RECURSIVE json_str(_)
json_str(s) ==
    LET at == {i \in 1..Len(s) : s[i] = LF}
    IN  IF at = {} THEN s
        ELSE LET i == CHOOSE j \in at : \A k \in at : j <= k
             IN  SubSeq(s, 1, i - 1) \o <<92, 110>>
                     \o json_str(SubSeq(s, i + 1, Len(s)))

\* line 109: one line of OUT, an object of the two fields.
json_line(r) == [prompt |-> json_str(r.prompt), response |-> json_str(r.response)]

\* Write, but the diagnostic of line 115 is printed whatever was built.
Write_always ==
    /\ pc = "write"
    /\ out' = [k \in 1..Len(records) |-> json_line(records[k])]
    /\ diag' = TRUE
    /\ pc' = "done"
    /\ UNCHANGED <<server, cfg, raw, text, paras, pi, buf_words, chunks, ci,
                   ch, cut, pairs, records, rnd>>

\* lines 107-115
Write ==
    /\ pc = "write"
    /\ out' = [k \in 1..Len(records) |-> json_line(records[k])]
    /\ diag' = (Len(records) = 0)
    /\ pc' = "done"
    /\ UNCHANGED <<server, cfg, raw, text, paras, pi, buf_words, chunks, ci, ch, cut,
                   pairs, records, rnd>>

MaxParas == 2

\* The paragraph word counts of the corpora of main, by thresholds.
MainWordCounts(c) ==
    IF c = ScenarioA THEN {90, 150}
    ELSE IF c = CapOne THEN {300, 500}
    ELSE {150, 300}

\* The run at line 85, the paragraphs extracted.  raw and text are not read
\* again after line 79 and are not kept at word level.
Init ==
    /\ cfg \in {Default, ScenarioA, CapOne}
    /\ pc = "shuffle_paras"
    /\ raw = <<>>
    /\ text = <<>>
    /\ paras \in {ParasOf(lens) :
                    lens \in SeqsUpTo(MainWordCounts(cfg), MaxParas)}
    /\ pi = 1
    /\ buf_words = <<>>
    /\ chunks = <<>>
    /\ ci = 1
    /\ ch = <<>>
    /\ cut = 0
    /\ pairs = <<>>
    /\ records = <<>>
    /\ out = <<>>
    /\ diag = FALSE
    /\ rnd = <<>>
    /\ NoServer

Next ==
    \/ ShuffleParas
    \/ JoinOversize
    \/ JoinAppend
    \/ JoinFinish
    \/ ShuffleChunks
    \/ LoopNoCut
    \/ LoopCut
    \/ LoopEnd
    \/ Write

Spec == Init /\ [][Next]_vars

----------------------------------------------------------------------------
(* backend/server.py.  A handler runs from one await to the next in one     *)
(* step; the handlers of several requests interleave at their awaits.  An   *)
(* e-mail address is a sequence of code points, a user id the place of the  *)
(* user in db.users, a session id the place of the session at the provider. *)

\* find_one found nothing
NoUser == [id |-> 0, email |-> <<>>, is_premium |-> FALSE]
NoTransaction == [session_id |-> 0, user_id |-> 0, payment_status |-> "none"]

\* str.lower
lower(s) == [i \in DOMAIN s |-> IF s[i] \in 65..90 THEN s[i] + 32 ELSE s[i]]

\* line 49
SUBSCRIPTION_PACKAGES == {"monthly", "yearly"}

\* What the clients send: the addresses "A" and "b", a week number, package
\* ids.
EmailInputs == {<<65>>, <<98>>}
Weeks == {1}
PackageIds == {"monthly", "weekly"}

First(S) == CHOOSE i \in S : \A j \in S : i <= j

\* db.users.find_one({"email": e})
FindUserByEmail(e) ==
    LET at == {i \in 1..Len(users) : users[i].email = e}
    IN  IF at = {} THEN NoUser ELSE users[First(at)]

\* db.payment_transactions.find_one({"session_id": s})
FindTransaction(s) ==
    LET at == {i \in 1..Len(payment_transactions) :
                 payment_transactions[i].session_id = s}
    IN  IF at = {} THEN NoTransaction ELSE payment_transactions[First(at)]

\* db.study_plans.find({"user_id": id})
FindStudyPlans(id) == SelectSeq(study_plans, LAMBDA p : p.user_id = id)

\* db.payment_transactions.update_one({"session_id": s},
\*                                    {"$set": {"payment_status": st}})
SetPaymentStatus(s, st) ==
    LET at == {i \in 1..Len(payment_transactions) :
                 payment_transactions[i].session_id = s}
    IN  IF at = {} THEN payment_transactions
        ELSE [payment_transactions EXCEPT ![First(at)].payment_status = st]

\* db.users.update_one({"id": id}, {"$set": {"is_premium": True}})
SetPremium(id) ==
    LET at == {i \in 1..Len(users) : users[i].id = id}
    IN  IF at = {} THEN users
        ELSE [users EXCEPT ![First(at)].is_premium = TRUE]

\* The subjects of the bearer tokens a client may hold: a token is issued by
\* register (and login) for the address of a user in db.users, and <<>>
\* stands for credentials that jwt.decode rejects.
Tokens == {users[i].email : i \in 1..Len(users)} \cup {<<>>}

\* A request as it arrives, with the locals of its handler.
NewRequest(op, sub, arg) ==
    [op |-> op, step |-> "start", sub |-> sub, arg |-> arg,
     current_user |-> NoUser, transaction |-> NoTransaction,
     session_id |-> 0, payment_status |-> "none"]

Requests ==
    {NewRequest("register", <<>>, e) : e \in EmailInputs}
    \cup {NewRequest("get_study_plans", s, 0) : s \in Tokens}
    \cup {NewRequest("generate_study_plan", s, w) : s \in Tokens, w \in Weeks}
    \cup {NewRequest("create_checkout_session", s, p) :
            s \in Tokens, p \in PackageIds}
    \cup {NewRequest("get_payment_status", s, id) :
            s \in Tokens, id \in 1..(Len(stripe) + 1)}
    \cup {NewRequest("stripe_webhook", <<>>, 0)}

MaxRequests == 4

\* A request arrives.
Request ==
    /\ nreq < MaxRequests
    /\ nreq' = nreq + 1
    /\ \E q \in Requests : reqs' = reqs (+) SetToBag({q})
    /\ UNCHANGED <<pipeline, users, study_plans, payment_transactions, stripe,
                   resp>>

\* The handler of q goes on to its next await as q2.
Goes(q, q2) ==
    /\ reqs' = (reqs (-) SetToBag({q})) (+) SetToBag({q2})
    /\ resp' = resp

\* The handler of q returns, or raises the HTTPException, with this status.
Responds(q, st, body) ==
    /\ reqs' = reqs (-) SetToBag({q})
    /\ resp' = [op |-> q.op, arg |-> q.arg,
                is_premium |-> q.current_user.is_premium,
                status |-> st, body |-> body]

At(op, step) == {q \in BagToSet(reqs) : q.op = op /\ q.step = step}

\* lines 181-188
register ==
    /\ \E q \in At("register", "start") :
        IF FindUserByEmail(lower(q.arg)) # NoUser
        THEN Responds(q, 400, <<>>)
        ELSE Goes(q, [q EXCEPT !.step = "insert_one"])
    /\ UNCHANGED <<pipeline, users, study_plans, payment_transactions, stripe,
                   nreq>>

\* lines 190-209; the body is the subject of the token issued
register_insert_one ==
    /\ \E q \in At("register", "insert_one") :
        /\ users' = Append(users, [id |-> Len(users) + 1,
                                   email |-> lower(q.arg),
                                   is_premium |-> FALSE])
        /\ Responds(q, 200, <<lower(q.arg)>>)
    /\ UNCHANGED <<pipeline, study_plans, payment_transactions, stripe, nreq>>

AuthenticatedOps ==
    {"get_study_plans", "generate_study_plan", "create_checkout_session",
     "get_payment_status"}

\* lines 140-157
get_current_user ==
    /\ \E q \in {x \in BagToSet(reqs) :
                    x.op \in AuthenticatedOps /\ x.step = "start"} :
        IF q.sub = <<>> \/ FindUserByEmail(q.sub) = NoUser
        THEN Responds(q, 401, <<>>)
        ELSE Goes(q, [q EXCEPT !.current_user = FindUserByEmail(q.sub),
                               !.step = "handler"])
    /\ UNCHANGED <<pipeline, users, study_plans, payment_transactions, stripe,
                   nreq>>

\* lines 362-370
get_study_plans ==
    /\ \E q \in At("get_study_plans", "handler") :
        IF ~q.current_user.is_premium
        THEN Responds(q, 403, <<>>)
        ELSE Responds(q, 200, FindStudyPlans(q.current_user.id))
    /\ UNCHANGED <<pipeline, users, study_plans, payment_transactions, stripe,
                   nreq>>

\* db.study_plans.find_one({"user_id": id, "week_number": w}), as a
\* sequence of at most one plan
FindStudyPlan(id, w) ==
    LET found == SelectSeq(study_plans,
                           LAMBDA p : p.user_id = id /\ p.week_number = w)
    IN  IF found = <<>> THEN <<>> ELSE <<found[1]>>

\* generate_study_plan without the test of lines 374-378.
generate_study_plan_open ==
    /\ \E q \in At("generate_study_plan", "handler") :
        IF FindStudyPlan(q.current_user.id, q.arg) # <<>>
        THEN Responds(q, 200, FindStudyPlan(q.current_user.id, q.arg))
        ELSE Goes(q, [q EXCEPT !.step = "insert_one"])
    /\ UNCHANGED <<pipeline, users, study_plans, payment_transactions, stripe,
                   nreq>>

\* lines 373-387
generate_study_plan ==
    /\ \E q \in At("generate_study_plan", "handler") :
        IF ~q.current_user.is_premium
        THEN Responds(q, 403, <<>>)
        ELSE IF FindStudyPlan(q.current_user.id, q.arg) # <<>>
        THEN Responds(q, 200, FindStudyPlan(q.current_user.id, q.arg))
        ELSE Goes(q, [q EXCEPT !.step = "insert_one"])
    /\ UNCHANGED <<pipeline, users, study_plans, payment_transactions, stripe,
                   nreq>>

\* lines 389-502: whatever the assistant answers, a plan of the user for the
\* week is saved and returned.
generate_study_plan_insert_one ==
    /\ \E q \in At("generate_study_plan", "insert_one") :
        LET study_plan == [user_id |-> q.current_user.id,
                           week_number |-> q.arg]
        IN  /\ study_plans' = Append(study_plans, study_plan)
            /\ Responds(q, 200, <<study_plan>>)
    /\ UNCHANGED <<pipeline, users, payment_transactions, stripe, nreq>>

\* lines 507-544: the provider opens a session, unpaid.
create_checkout_session ==
    /\ \E q \in At("create_checkout_session", "handler") :
        IF q.arg \notin SUBSCRIPTION_PACKAGES
        THEN /\ Responds(q, 400, <<>>)
             /\ stripe' = stripe
        ELSE /\ stripe' = Append(stripe, "unpaid")
             /\ Goes(q, [q EXCEPT !.session_id = Len(stripe) + 1,
                                  !.step = "insert_one"])
    /\ UNCHANGED <<pipeline, users, study_plans, payment_transactions, nreq>>

\* lines 546-559
create_checkout_session_insert_one ==
    /\ \E q \in At("create_checkout_session", "insert_one") :
        /\ payment_transactions' =
                Append(payment_transactions,
                       [session_id |-> q.session_id,
                        user_id |-> q.current_user.id,
                        payment_status |-> "pending"])
        /\ Responds(q, 200, <<q.session_id>>)
    /\ UNCHANGED <<pipeline, users, study_plans, stripe, nreq>>

\* get_payment_status without the test of the owner of the transaction.
get_payment_status_anyone ==
    /\ \E q \in At("get_payment_status", "handler") :
        LET transaction == FindTransaction(q.arg)
        IN  IF transaction = NoTransaction
            THEN Responds(q, 404, <<>>)
            ELSE Goes(q, [q EXCEPT !.transaction = transaction,
                                   !.step = "get_checkout_status"])
    /\ UNCHANGED <<pipeline, users, study_plans, payment_transactions, stripe,
                   nreq>>

\* lines 562-566
get_payment_status ==
    /\ \E q \in At("get_payment_status", "handler") :
        LET transaction == FindTransaction(q.arg)
        IN  IF \/ transaction = NoTransaction
               \/ transaction.user_id # q.current_user.id
            THEN Responds(q, 404, <<>>)
            ELSE Goes(q, [q EXCEPT !.transaction = transaction,
                                   !.step = "get_checkout_status"])
    /\ UNCHANGED <<pipeline, users, study_plans, payment_transactions, stripe,
                   nreq>>

\* lines 568-576, 594
get_payment_status_checkout ==
    /\ \E q \in At("get_payment_status", "get_checkout_status") :
        IF stripe[q.arg] # q.transaction.payment_status
        THEN Goes(q, [q EXCEPT !.payment_status = stripe[q.arg],
                               !.step = "update_one"])
        ELSE Responds(q, 200, <<stripe[q.arg]>>)
    /\ UNCHANGED <<pipeline, users, study_plans, payment_transactions, stripe,
                   nreq>>

\* lines 577-588, 594
get_payment_status_update_one ==
    /\ \E q \in At("get_payment_status", "update_one") :
        /\ payment_transactions' = SetPaymentStatus(q.arg, q.payment_status)
        /\ IF q.payment_status = "paid" /\ ~q.current_user.is_premium
           THEN Goes(q, [q EXCEPT !.step = "set_premium"])
           ELSE Responds(q, 200, <<q.payment_status>>)
    /\ UNCHANGED <<pipeline, users, study_plans, stripe, nreq>>

\* lines 589-594
get_payment_status_set_premium ==
    /\ \E q \in At("get_payment_status", "set_premium") :
        /\ users' = SetPremium(q.current_user.id)
        /\ Responds(q, 200, <<q.payment_status>>)
    /\ UNCHANGED <<pipeline, study_plans, payment_transactions, stripe, nreq>>

\* lines 597-607, 630-634: handle_webhook raises, or returns the event the
\* provider sent: no session (0) or one of its sessions, with the status the
\* session has or had.
stripe_webhook ==
    /\ \E q \in At("stripe_webhook", "start") :
        \/ Responds(q, 400, <<>>)
        \/ Responds(q, 200, <<"success">>)
        \/ \E s \in 1..Len(stripe) : \E st \in {"unpaid", stripe[s]} :
                Goes(q, [q EXCEPT !.session_id = s, !.payment_status = st,
                                  !.step = "update_one"])
    /\ UNCHANGED <<pipeline, users, study_plans, payment_transactions, stripe,
                   nreq>>

\* lines 610-622, 630
stripe_webhook_update_one ==
    /\ \E q \in At("stripe_webhook", "update_one") :
        /\ payment_transactions' =
                SetPaymentStatus(q.session_id, q.payment_status)
        /\ IF q.payment_status = "paid"
           THEN Goes(q, [q EXCEPT !.step = "find_one"])
           ELSE Responds(q, 200, <<"success">>)
    /\ UNCHANGED <<pipeline, users, study_plans, stripe, nreq>>

\* lines 623-624, 630
stripe_webhook_find_one ==
    /\ \E q \in At("stripe_webhook", "find_one") :
        LET transaction == FindTransaction(q.session_id)
        IN  IF transaction # NoTransaction /\ transaction.user_id # 0
            THEN Goes(q, [q EXCEPT !.transaction = transaction,
                                   !.step = "set_premium"])
            ELSE Responds(q, 200, <<"success">>)
    /\ UNCHANGED <<pipeline, users, study_plans, payment_transactions, stripe,
                   nreq>>

\* lines 625-630
stripe_webhook_set_premium ==
    /\ \E q \in At("stripe_webhook", "set_premium") :
        /\ users' = SetPremium(q.transaction.user_id)
        /\ Responds(q, 200, <<"success">>)
    /\ UNCHANGED <<pipeline, study_plans, payment_transactions, stripe, nreq>>

\* The customer pays a session at the provider.
Paid ==
    /\ \E s \in 1..Len(stripe) :
        /\ stripe[s] = "unpaid"
        /\ stripe' = [stripe EXCEPT ![s] = "paid"]
    /\ UNCHANGED <<pipeline, users, study_plans, payment_transactions, reqs,
                   nreq, resp>>

\* The server has started, on an empty database or on one where the address
\* "a" was registered; no pipeline runs.
InitServer ==
    /\ cfg = Default
    /\ pc = "serve"
    /\ raw = <<>>
    /\ text = <<>>
    /\ paras = <<>>
    /\ pi = 1
    /\ buf_words = <<>>
    /\ chunks = <<>>
    /\ ci = 1
    /\ ch = <<>>
    /\ cut = 0
    /\ pairs = <<>>
    /\ records = <<>>
    /\ out = <<>>
    /\ diag = FALSE
    /\ rnd = <<>>
    /\ users \in {<<>>, <<[id |-> 1, email |-> <<97>>, is_premium |-> FALSE]>>}
    /\ study_plans = <<>>
    /\ payment_transactions = <<>>
    /\ stripe = <<>>
    /\ reqs = EmptyBag
    /\ nreq = 0
    /\ resp = NoResponse

NextServer ==
    \/ Request
    \/ register
    \/ register_insert_one
    \/ get_current_user
    \/ get_study_plans
    \/ generate_study_plan
    \/ generate_study_plan_insert_one
    \/ create_checkout_session
    \/ create_checkout_session_insert_one
    \/ get_payment_status
    \/ get_payment_status_checkout
    \/ get_payment_status_update_one
    \/ get_payment_status_set_premium
    \/ stripe_webhook
    \/ stripe_webhook_update_one
    \/ stripe_webhook_find_one
    \/ stripe_webhook_set_premium
    \/ Paid

SpecServer == InitServer /\ [][NextServer]_vars

----------------------------------------------------------------------------
(* Properties *)

NWords(s) == Len(split_ws(s))

\* C1 (SpecJoin): every chunk join_paras has emitted, the last one included,
\* has at least MIN_CHUNK_WORDS and at most MAX_CHUNK_WORDS words.
C1_ChunkBounds ==
    \A k \in 1..Len(chunks) :
        /\ NWords(chunks[k]) >= cfg.MIN_CHUNK_WORDS
        /\ NWords(chunks[k]) <= cfg.MAX_CHUNK_WORDS

\* join_paras has returned several chunks, one cut at the maximum out of
\* paragraphs that are each below it, one below the maximum.
C1_Witness ==
    /\ pc = "shuffle_chunks"
    /\ \A k \in 1..Len(paras) : NWords(paras[k]) < cfg.MAX_CHUNK_WORDS
    /\ \E k \in 1..Len(chunks) : NWords(chunks[k]) = cfg.MAX_CHUNK_WORDS
    /\ \E k \in 1..Len(chunks) : NWords(chunks[k]) < cfg.MAX_CHUNK_WORDS

\* C2 (SpecPairs): a pair make_pairs returns has a prompt of at least
\* MIN_PROMPT_WORDS words and of at most 60% of the chunk's words, and a
\* response of MIN_RESPONSE_WORDS to MAX_RESPONSE_WORDS words.
C2_PairBounds ==
    pairs # <<>> =>
        /\ Len(pairs) = 1
        /\ NWords(pairs[1][1]) >= cfg.MIN_PROMPT_WORDS
        /\ NWords(pairs[1][2]) >= cfg.MIN_RESPONSE_WORDS
        /\ NWords(pairs[1][2]) <= cfg.MAX_RESPONSE_WORDS
        /\ NWords(pairs[1][1]) * 100 <= 60 * NWords(ch)

\* A pair of a 420-word chunk whose prompt is above the minimum and whose
\* response is cut at MAX_RESPONSE_WORDS, words of the chunk being dropped.
C2_Witness ==
    /\ pc = "returned"
    /\ pairs # <<>>
    /\ NWords(ch) = MAX_CHUNK_WORDS
    /\ NWords(pairs[1][1]) > cfg.MIN_PROMPT_WORDS
    /\ NWords(pairs[1][2]) = cfg.MAX_RESPONSE_WORDS
    /\ NWords(pairs[1][1]) + NWords(pairs[1][2]) < NWords(ch)

\* C3 (SpecPairs): with the thresholds 90/60/220, make_pairs on a chunk of
\* exactly 150 words draws the cut 90 and returns the one pair of the first
\* 90 words and the remaining 60 words.
C3_ScenarioC ==
    (pc = "returned" /\ NWords(ch) = 150) =>
        /\ cut = 90
        /\ pairs = << <<join_sp(Slice(split_ws(ch), 0, 90)),
                        join_sp(Slice(split_ws(ch), 90, 150))>> >>

\* C4 (Spec): the records built, and the lines written, never number more
\* than MAX_RECORDS.
C4_CapLaw ==
    /\ Len(records) <= cfg.MAX_RECORDS
    /\ Len(out) <= cfg.MAX_RECORDS

\* The run has ended with MAX_RECORDS lines written and chunks left over.
C4_Witness ==
    /\ pc = "done"
    /\ Len(out) = cfg.MAX_RECORDS
    /\ Len(chunks) > cfg.MAX_RECORDS
    /\ ci <= Len(chunks)

\* C5 (SpecJoin): of every paragraph of at least MAX_CHUNK_WORDS words that
\* join_paras has met, exactly one chunk is its first MAX_CHUNK_WORDS words,
\* and its remaining words are in no chunk and not in the accumulator.  (The
\* words of one paragraph are consecutive integers, so the remaining ones are
\* those from the one after its MAX_CHUNK_WORDS-th to its last.)
C5_OversizeHead ==
    \A k \in 1..(pi - 1) :
        LET w == split_ws(paras[k])
            rest == (w[cfg.MAX_CHUNK_WORDS] + 1)..w[Len(w)]
        IN  Len(w) >= cfg.MAX_CHUNK_WORDS =>
                /\ Cardinality({c \in 1..Len(chunks) :
                        chunks[c] = join_sp(SubSeq(w, 1, cfg.MAX_CHUNK_WORDS))}) = 1
                /\ \A c \in 1..Len(chunks) : \A i \in 1..Len(chunks[c]) :
                        chunks[c][i] \notin rest
                /\ \A i \in 1..Len(buf_words) : buf_words[i] \notin rest

\* A 500-word paragraph under MAX_CHUNK_WORDS = 400 came first, later
\* paragraphs were joined into a chunk after it, and join_paras has returned.
C5_Witness ==
    /\ pc = "shuffle_chunks"
    /\ cfg = ScenarioB
    /\ Len(paras) = 3
    /\ NWords(paras[1]) = 500
    /\ Len(chunks) = 2
    /\ NWords(chunks[1]) = 400
    /\ NWords(chunks[2]) < 400

\* C6 (SpecJoin): under MIN_CHUNK_WORDS = 150 and MAX_CHUNK_WORDS = 200, once
\* join_paras has processed two paragraphs of 90 words each, the chunks are
\* the one chunk of the 180 words, the first paragraph's then the second's,
\* and the accumulator is empty.
C6_ScenarioA ==
    (/\ cfg = ScenarioA
     /\ Len(paras) = 2
     /\ NWords(paras[1]) = 90
     /\ NWords(paras[2]) = 90
     /\ pi = 3) =>
        /\ chunks = <<join_sp(split_ws(paras[1]) \o split_ws(paras[2]))>>
        /\ NWords(chunks[1]) = 180
        /\ buf_words = <<>>

\* join_paras has returned on the two paragraphs of 90 words.
C6_Witness ==
    /\ cfg = ScenarioA
    /\ Len(paras) = 2
    /\ NWords(paras[1]) = 90
    /\ NWords(paras[2]) = 90
    /\ pc = "shuffle_chunks"
    /\ Len(chunks) = 1

\* C7 (SpecText): the text clean_text returns holds no carriage return and no
\* three consecutive newlines, neither starts nor ends with whitespace, and
\* is empty when the input is empty.
C7_Normalized ==
    pc # "read" =>
        /\ \A i \in 1..Len(text) : text[i] # CR
        /\ \A i \in 1..(Len(text) - 2) :
                ~(text[i] = LF /\ text[i + 1] = LF /\ text[i + 2] = LF)
        /\ text # <<>> =>
                (text[1] \notin Whitespace /\ text[Len(text)] \notin Whitespace)
        /\ raw = <<>> => text = <<>>

\* A raw text that starts with whitespace, holds a carriage return and
\* normalizes to a text with a blank line in it.
C7_Witness ==
    /\ pc = "clean"
    /\ raw # <<>>
    /\ raw[1] \in Whitespace
    /\ \E i \in 1..Len(raw) : raw[i] = CR
    /\ \E i \in 1..(Len(text) - 1) : text[i] = LF /\ text[i + 1] = LF

\* C8 (SpecText): clean_text of the text clean_text returned is that text.
C8_Idempotent == pc # "read" => clean_text(text) = text

\* clean_text has changed a raw text into a non-empty text.
C8_Witness ==
    /\ pc = "clean"
    /\ text # raw
    /\ text # <<>>
    /\ \E i \in 1..Len(raw) : raw[i] = CR

\* The pieces of t between its two-newline separators, by position: in a
\* normalized text no two separators overlap.
SeparatorsOf(t) ==
    SelectSeq(Indices(t),
              LAMBDA i : i < Len(t) /\ t[i] = LF /\ t[i + 1] = LF)

PiecesOf(t) ==
    LET sep == SeparatorsOf(t)
    IN  [k \in 1..(Len(sep) + 1) |->
            SubSeq(t,
                   IF k = 1 THEN 1 ELSE sep[k - 1] + 2,
                   IF k = Len(sep) + 1 THEN Len(t) ELSE sep[k] - 1)]

\* C9 (SpecText): paragraphs returns, in their order, exactly the stripped
\* pieces between the two-newline separators of the normalized text that are
\* at least 80 characters long; none it returns is shorter.
C9_Paragraphs ==
    pc = "shuffle_paras" =>
        /\ paras = SelectSeq([k \in 1..Len(PiecesOf(text)) |->
                                 strip(PiecesOf(text)[k])],
                             LAMBDA p : p # <<>> /\ Len(p) >= 80)
        /\ \A k \in 1..Len(paras) : Len(paras[k]) >= 80

\* Two different paragraphs were returned, one of exactly 80 characters.
C9_Witness ==
    /\ pc = "shuffle_paras"
    /\ Len(paras) = 2
    /\ paras[1] # paras[2]
    /\ \E k \in 1..2 : Len(paras[k]) = 80 /\ \E i \in 1..80 : paras[k][i] = 97

\* C10 (Spec): when the cut upper bound of the chunk the loop of main is at
\* is not above MIN_PROMPT_WORDS, make_pairs returns the empty result, no
\* error is raised, no record is added and the loop goes on to the next chunk;
\* and make_pairs returns the empty result on a chunk of 140 words.
C10_SilentReject ==
    /\ [][(/\ pc = "loop"
           /\ ci <= Len(chunks)
           /\ Min(NWords(chunks[ci]) - cfg.MIN_RESPONSE_WORDS,
                  (NWords(chunks[ci]) * 60) \div 100) <= cfg.MIN_PROMPT_WORDS)
          => (/\ pairs' = <<>>
              /\ records' = records
              /\ ci' = ci + 1
              /\ pc' = "loop")]_vars
    /\ [](/\ NoCut([j \in 1..140 |-> Word(1, j)])
          /\ make_pairs(join_sp([j \in 1..140 |-> Word(1, j)]), 0) = <<>>)

\* The first chunk had no valid cut, no record came of it, and the second
\* chunk has been given to make_pairs.
C10_Witness ==
    /\ pc \in {"loop", "write", "done"}
    /\ Len(chunks) >= 2
    /\ Min(NWords(chunks[1]) - cfg.MIN_RESPONSE_WORDS,
           (NWords(chunks[1]) * 60) \div 100) <= cfg.MIN_PROMPT_WORDS
    /\ ci >= 3
    /\ ch = chunks[2]

\* C11 (Spec): every record appended to the collection has exactly the two
\* fields prompt and response; its prompt is one template of PROMPTS, then
\* two newlines, then the prompt span of the pair make_pairs just returned,
\* and its response is that pair's response span.
C11_RecordShape ==
    [][records' # records =>
        /\ pairs' # <<>>
        /\ Len(records') = Len(records) + 1
        /\ SubSeq(records', 1, Len(records)) = records
        /\ LET r == records'[Len(records')]
           IN  /\ DOMAIN r = {"prompt", "response"}
               /\ \E t \in 1..Len(PROMPTS) :
                    r.prompt = <<PROMPTS[t], LF, LF>> \o pairs'[1][1]
               /\ r.response = pairs'[1][2]]_vars

\* The run has ended with two records built under two different templates.
C11_Witness ==
    /\ pc = "done"
    /\ Len(records) = 2
    /\ records[1].prompt[1] # records[2].prompt[1]
    /\ records[1].response # records[2].response

\* join_paras, lines 32-54, as a function of the paragraphs: the loop from
\* the i-th paragraph on, with the accumulator buf and the chunks cs so far.
RECURSIVE join_loop(_, _, _, _)
join_loop(ps, i, buf, cs) ==
    IF i > Len(ps)
    THEN IF Len(buf) >= cfg.MIN_CHUNK_WORDS THEN Append(cs, join_sp(buf)) ELSE cs
    ELSE LET w == split_ws(ps[i])
             b == buf \o w
         IN  IF Len(w) >= cfg.MAX_CHUNK_WORDS
             THEN join_loop(ps, i + 1, <<>>,
                            Append(IF Len(buf) >= cfg.MIN_CHUNK_WORDS
                                   THEN Append(cs, join_sp(buf))
                                   ELSE cs,
                                   join_sp(Slice(w, 0, cfg.MAX_CHUNK_WORDS))))
             ELSE IF Len(b) >= cfg.MIN_CHUNK_WORDS
             THEN join_loop(ps, i + 1, Slice(b, cfg.MAX_CHUNK_WORDS, Len(b)),
                            Append(cs, join_sp(Slice(b, 0, cfg.MAX_CHUNK_WORDS))))
             ELSE join_loop(ps, i + 1, b, cs)

join_paras(ps) == join_loop(ps, 1, <<>>, <<>>)

\* The loop of main, lines 95-105, as a function of the chunks and of what
\* the random source returns to it: the records from the i-th chunk on, recs
\* being those built so far and draws what the source has yet to return.
RECURSIVE record_loop(_, _, _, _)
record_loop(cs, i, draws, recs) ==
    IF i > Len(cs) THEN recs
    ELSE LET drawn == ~NoCut(split_ws(cs[i]))
             ps == make_pairs(cs[i], IF drawn THEN draws[1].draw ELSE 0)
             rs == IF ps = <<>> THEN recs
                   ELSE Append(recs, Record(ps[1], draws[2].draw))
             rest == IF ~drawn THEN draws
                     ELSE IF ps = <<>> THEN Tail(draws)
                     ELSE Tail(Tail(draws))
         IN  IF Len(rs) >= cfg.MAX_RECORDS THEN rs
             ELSE record_loop(cs, i + 1, rest, rs)

\* The paragraphs main was given, in their order before line 85: the k-th
\* paragraph of a corpus is the one that holds the words Word(k, _).
Corpus ==
    [k \in 1..Len(paras) |->
        paras[CHOOSE j \in 1..Len(paras) : paras[j][1] \div 1000 = k]]

\* C12 (Spec): the run is a function of the corpus and of what the random
\* source returned.  At the end of every run the paragraph order, the
\* chunks, the last cut point and the records are those computed from the
\* corpus and the logged draws alone, so two runs over the same corpus that
\* receive the same draws end with the same paragraph order, chunks, cut
\* points and records.
C12_Deterministic ==
    pc = "done" =>
        LET ps == Permute(Corpus, rnd[1].draw)
            cs == Permute(join_paras(ps), rnd[2].draw)
            cuts == SelectSeq(rnd, LAMBDA d : d.use = "cut")
        IN  /\ paras = ps
            /\ chunks = cs
            /\ cut = IF cuts = <<>> THEN 0 ELSE cuts[Len(cuts)].draw
            /\ records = record_loop(cs, 1, SubSeq(rnd, 3, Len(rnd)), <<>>)

\* A run has ended with two records, both shuffles having changed the order.
C12_Witness ==
    /\ pc = "done"
    /\ Len(records) = 2
    /\ rnd[1].draw = <<2, 1>>
    /\ rnd[2].draw = <<2, 1>>
    /\ records[1].prompt[1] # records[2].prompt[1]

\* C13 (SpecServer): every step of a get_study_plans or generate_study_plan
\* request whose authenticated user has is_premium false answers 403 with no
\* study plan in the body and leaves db.study_plans as it is; a study plan is
\* only ever added for a user who is premium in db.users at that moment; and
\* in every state every study plan belongs to a premium user.
C13_PremiumOnly ==
    /\ [][\A q \in BagToSet(reqs) :
            (/\ q.op \in {"get_study_plans", "generate_study_plan"}
             /\ q.current_user # NoUser
             /\ ~q.current_user.is_premium
             /\ CopiesIn(q, reqs') < CopiesIn(q, reqs))
            => (/\ resp' = [op |-> q.op, arg |-> q.arg, is_premium |-> FALSE,
                            status |-> 403, body |-> <<>>]
                /\ study_plans' = study_plans)]_vars
    /\ [][study_plans' # study_plans =>
            /\ Len(study_plans') = Len(study_plans) + 1
            /\ SubSeq(study_plans', 1, Len(study_plans)) = study_plans
            /\ \E i \in 1..Len(users) :
                /\ users[i].id = study_plans'[Len(study_plans')].user_id
                /\ users[i].is_premium]_vars
    /\ [](\A k \in 1..Len(study_plans) : \E i \in 1..Len(users) :
            /\ users[i].id = study_plans[k].user_id
            /\ users[i].is_premium)

\* A request to list the study plans, authenticated before its user became
\* premium, has been refused with 403 although a plan of that user exists.
C13_Witness ==
    /\ resp.op = "get_study_plans"
    /\ resp.status = 403
    /\ ~resp.is_premium
    /\ study_plans # <<>>

\* C14 (Spec): from any state where the records number MAX_RECORDS or more,
\* no step takes a further chunk (ci and ch stay), calls make_pairs (pairs
\* and cut stay), draws from the random source (rnd stays) or changes the
\* records.
C14_HaltAtCap ==
    [][Len(records) >= cfg.MAX_RECORDS =>
        /\ ci' = ci
        /\ ch' = ch
        /\ pairs' = pairs
        /\ cut' = cut
        /\ rnd' = rnd
        /\ records' = records]_vars

\* With MAX_RECORDS = 1 the run has ended after the first of two chunks: one
\* cut and one template were drawn, the second chunk was never taken.
C14_Witness ==
    /\ pc = "done"
    /\ cfg.MAX_RECORDS = 1
    /\ Len(chunks) = 2
    /\ ci = 2
    /\ ch = chunks[1]
    /\ Len(records) = 1
    /\ Len(rnd) = 4

\* C15 (SpecJoin): when a paragraph below MAX_CHUNK_WORDS is appended and the
\* accumulator then holds at least MIN_CHUNK_WORDS words, exactly one chunk
\* is emitted, the first min(len, MAX_CHUNK_WORDS) words of the accumulator,
\* the new accumulator is the words beyond MAX_CHUNK_WORDS, and the chunk
\* followed by the new accumulator is the old accumulator followed by the
\* paragraph's words.
C15_NoWordLost ==
    [][(/\ pc = "join"
        /\ pi <= Len(paras)
        /\ NWords(paras[pi]) < cfg.MAX_CHUNK_WORDS
        /\ Len(buf_words) + NWords(paras[pi]) >= cfg.MIN_CHUNK_WORDS)
       => LET all == buf_words \o split_ws(paras[pi])
              n == Min(Len(all), cfg.MAX_CHUNK_WORDS)
          IN  /\ Len(chunks') = Len(chunks) + 1
              /\ SubSeq(chunks', 1, Len(chunks)) = chunks
              /\ chunks'[Len(chunks')] = join_sp(SubSeq(all, 1, n))
              /\ buf_words' = SubSeq(all, n + 1, Len(all))
              /\ split_ws(chunks'[Len(chunks')]) \o buf_words' = all]_vars

\* One append took the accumulator from 200 words, below MIN_CHUNK_WORDS, to
\* 500, above MAX_CHUNK_WORDS: a chunk of 420 words was emitted and the 80
\* words beyond it, the last of the paragraph, are the accumulator.
C15_Witness ==
    /\ pc = "join"
    /\ cfg = Default
    /\ pi = 3
    /\ NWords(paras[1]) = 200
    /\ NWords(paras[2]) = 300
    /\ Len(chunks) = 1
    /\ NWords(chunks[1]) = 420
    /\ Len(buf_words) = 80
    /\ buf_words[80] = Word(2, 300)

\* C16, as claimed (SpecPairs): there is a chunk, of up to MaxPairWords
\* words, and a cut that random.randint may return for it, for which the
\* response-length test after the cut gives the empty result.
C16_PostCutReject ==
    \E n \in 0..MaxPairWords :
        LET words == [j \in 1..n |-> Word(1, j)]
        IN  /\ ~NoCut(words)
            /\ \E c \in CutDraws(words) : PairAt(words, c) = <<>>

\* C16, amended (SpecPairs): whenever make_pairs has drawn a cut it returns
\* a pair, whose response has at least MIN_RESPONSE_WORDS words: the test
\* after the cut never gives the empty result.
C16_NoPostCutReject ==
    (pc = "returned" /\ rnd # <<>>) =>
        /\ pairs # <<>>
        /\ NWords(pairs[1][2]) >= cfg.MIN_RESPONSE_WORDS

\* The shortest chunk for which a cut is drawn, 152 words, at its largest
\* cut, 91: the response has 61 words.
C16_Witness ==
    /\ pc = "returned"
    /\ NWords(ch) = 152
    /\ cut = 91
    /\ rnd = <<Draw("cut", 91)>>
    /\ NWords(pairs[1][2]) = 61

\* C17 (SpecJoin): when a paragraph of at least MAX_CHUNK_WORDS words is
\* processed, the accumulator is empty afterwards and the last chunk is the
\* paragraph's first MAX_CHUNK_WORDS words; if the pending words numbered at
\* least MIN_CHUNK_WORDS they are the chunk added just before it, otherwise
\* no other chunk is added and no pending word is in any chunk.
C17_OversizeFlush ==
    [][(/\ pc = "join"
        /\ pi <= Len(paras)
        /\ NWords(paras[pi]) >= cfg.MAX_CHUNK_WORDS)
       => LET head == join_sp(SubSeq(split_ws(paras[pi]), 1,
                                     cfg.MAX_CHUNK_WORDS))
          IN  /\ buf_words' = <<>>
              /\ IF Len(buf_words) >= cfg.MIN_CHUNK_WORDS
                 THEN chunks' = chunks \o <<join_sp(buf_words), head>>
                 ELSE /\ chunks' = chunks \o <<head>>
                      /\ \A k \in 1..Len(chunks') :
                            {chunks'[k][i] : i \in 1..Len(chunks'[k])}
                                \cap {buf_words[j] :
                                        j \in 1..Len(buf_words)} = {}]_vars

\* A 500-word paragraph came while 130 words were pending: its first 420
\* words are the only chunk and the accumulator is empty.
C17_Witness ==
    /\ pc = "join"
    /\ cfg = Default
    /\ pi = 3
    /\ NWords(paras[1]) = 130
    /\ NWords(paras[2]) = 500
    /\ chunks = <<join_sp(SubSeq(split_ws(paras[2]), 1, 420))>>
    /\ buf_words = <<>>

\* C18 (SpecPairs): for a pair returned with the cut c on a chunk of n words,
\* the prompt is the chunk's first c words and the response is the next
\* min(n - c, MAX_RESPONSE_WORDS) words; prompt followed by response is a
\* prefix of the chunk's words, no word is in both, and the words beyond
\* c + MAX_RESPONSE_WORDS are in neither.
C18_Spans ==
    pairs # <<>> =>
        LET w == split_ws(ch)
            n == Len(w)
            p == split_ws(pairs[1][1])
            r == split_ws(pairs[1][2])
        IN  /\ pairs[1][1] = join_sp(SubSeq(w, 1, cut))
            /\ pairs[1][2] =
                 join_sp(SubSeq(w, cut + 1,
                                cut + Min(n - cut, cfg.MAX_RESPONSE_WORDS)))
            /\ p \o r = SubSeq(w, 1, Len(p) + Len(r))
            /\ {p[i] : i \in 1..Len(p)} \cap {r[j] : j \in 1..Len(r)} = {}
            /\ {w[k] : k \in (cut + cfg.MAX_RESPONSE_WORDS + 1)..n}
                    \cap ({p[i] : i \in 1..Len(p)}
                              \cup {r[j] : j \in 1..Len(r)}) = {}

\* A pair of a 430-word chunk cut at 90: the response is the words 91 to
\* 310 and the last 120 words of the chunk are in neither span.
C18_Witness ==
    /\ pc = "returned"
    /\ NWords(ch) = 430
    /\ cut = 90
    /\ pairs # <<>>
    /\ split_ws(pairs[1][2])[1] = Word(1, 91)
    /\ split_ws(pairs[1][2])[220] = Word(1, 310)

\* The places in rnd of the template draws.
TemplateDraws == SelectSeq(Indices(rnd), LAMBDA i : rnd[i].use = "template")

\* C19 (Spec): the first use of the random source is the paragraph shuffle,
\* made before join_paras starts; the second is the chunk shuffle, made
\* before the loop; every later use is a cut draw or a template draw; and
\* the k-th template draw is the template of the k-th record and comes
\* right after the cut draw that gave that record's prompt span.
C19_DrawOrder ==
    /\ pc = "shuffle_paras" <=> rnd = <<>>
    /\ pc \in {"join", "shuffle_chunks"} =>
            (Len(rnd) = 1 /\ records = <<>>)
    /\ pc \in {"loop", "write", "done"} => Len(rnd) >= 2
    /\ \A i \in 1..Len(rnd) :
            rnd[i].use = IF i = 1 THEN "shuffle_paras"
                         ELSE IF i = 2 THEN "shuffle_chunks"
                         ELSE IF rnd[i].use = "template" THEN "template"
                         ELSE "cut"
    /\ Len(TemplateDraws) = Len(records)
    /\ \A k \in 1..Len(TemplateDraws) :
            LET i == TemplateDraws[k]
            IN  /\ i > 3
                /\ rnd[i - 1].use = "cut"
                /\ records[k].prompt[1] = PROMPTS[rnd[i].draw]
                /\ NWords(records[k].prompt) = 1 + rnd[i - 1].draw

\* A run has ended after the two shuffles and, for each of two chunks, a cut
\* draw and then a template draw.
C19_Witness ==
    /\ pc = "done"
    /\ Len(records) = 2
    /\ [i \in 1..Len(rnd) |-> rnd[i].use] =
         <<"shuffle_paras", "shuffle_chunks", "cut", "template", "cut",
           "template">>

\* C20 (Spec): the zero-record diagnostic has been printed exactly when the
\* run has ended with no record; a run that ends has written one line per
\* record, none when there is no record; and no run fails.
C20_Diagnostic ==
    /\ pc # "error"
    /\ diag <=> (pc = "done" /\ Len(records) = 0)
    /\ pc = "done" => Len(out) = Len(records)
    /\ pc # "done" => out = <<>>

\* A run whose chunks were all rejected has ended: no line was written and
\* the diagnostic was printed.
C20_Witness ==
    /\ pc = "done"
    /\ chunks # <<>>
    /\ records = <<>>
    /\ out = <<>>
    /\ diag

\* C21 (SpecJoin): between two paragraphs, and when the paragraphs are
\* exhausted, the accumulator holds fewer than MIN_CHUNK_WORDS words; so a
\* paragraph of at least MAX_CHUNK_WORDS words adds its own chunk and no
\* other, the end of join_paras adds no chunk, and the words pending at
\* either moment are in no chunk afterwards.
C21_FlushNeverEmits ==
    /\ [](Len(buf_words) < cfg.MIN_CHUNK_WORDS)
    /\ [][(/\ pc = "join"
           /\ pi <= Len(paras)
           /\ NWords(paras[pi]) >= cfg.MAX_CHUNK_WORDS)
          => (/\ Len(chunks') = Len(chunks) + 1
              /\ SubSeq(chunks', 1, Len(chunks)) = chunks
              /\ {chunks'[Len(chunks')][i] :
                    i \in 1..Len(chunks'[Len(chunks')])}
                    \cap {buf_words[j] : j \in 1..Len(buf_words)} = {}
              /\ buf_words' = <<>>)]_vars
    /\ [][(pc = "join" /\ pi > Len(paras)) => chunks' = chunks]_vars

\* join_paras has returned after 130 pending words were dropped at a
\* 500-word paragraph and 90 more were left over at the end: the only chunk
\* is the head of the 500-word paragraph.
C21_Witness ==
    /\ pc = "shuffle_chunks"
    /\ cfg = Default
    /\ Len(paras) = 3
    /\ NWords(paras[1]) = 130
    /\ NWords(paras[2]) = 500
    /\ NWords(paras[3]) = 90
    /\ Len(chunks) = 1
    /\ NWords(chunks[1]) = 420
    /\ Len(buf_words) = 90

\* C22 (Spec): under the source's thresholds, make_pairs returns one pair
\* for every chunk of MIN_CHUNK_WORDS to MAX_CHUNK_WORDS words and every cut
\* it may draw; in a run every chunk has that many words, every chunk the
\* loop has taken has given one record until the cap, and the lines written
\* number min(number of chunks, MAX_RECORDS).  (The first conjunct does not
\* depend on the corpus and is evaluated in the initial state of the empty
\* corpus.)
C22_NoRejection ==
    /\ (cfg = Default /\ paras = <<>> /\ pc = "shuffle_paras") =>
            \A n \in MIN_CHUNK_WORDS..MAX_CHUNK_WORDS :
                LET words == [j \in 1..n |-> Word(1, j)]
                IN  /\ ~NoCut(words)
                    /\ \A c \in CutDraws(words) :
                            Len(make_pairs(join_sp(words), c)) = 1
    /\ [](cfg \in {Default, CapOne} =>
            /\ pc \in {"loop", "write", "done"} =>
                /\ \A k \in 1..Len(chunks) :
                        /\ NWords(chunks[k]) >= MIN_CHUNK_WORDS
                        /\ NWords(chunks[k]) <= MAX_CHUNK_WORDS
                        /\ ~NoCut(split_ws(chunks[k]))
                /\ Len(records) = Min(ci - 1, cfg.MAX_RECORDS)
            /\ pc \in {"write", "done"} =>
                Len(records) = Min(Len(chunks), cfg.MAX_RECORDS)
            /\ pc = "done" => Len(out) = Min(Len(chunks), cfg.MAX_RECORDS))

\* Under the source's thresholds and cap a run has ended with two chunks,
\* both given to make_pairs, and two lines written.
C22_Witness ==
    /\ pc = "done"
    /\ cfg = Default
    /\ Len(chunks) = 2
    /\ ci = 3
    /\ Len(out) = Len(chunks)

\* C23 (SpecServer): is_premium of a user becomes true only in a step of a
\* request to which the provider has reported "paid" for a session whose
\* transaction has that user's id, and in every state a premium user has a
\* transaction whose session is paid at the provider; a get_payment_status
\* request for a session with no transaction, or with a transaction of
\* another user, answers 404 and leaves the database and the provider as
\* they are; and no step removes a user or takes is_premium back to false.
C23_PremiumByPayment ==
    /\ [][\A i \in 1..Len(users) :
            (~users[i].is_premium /\ users'[i].is_premium) =>
                \E q \in BagToSet(reqs) :
                    /\ CopiesIn(q, reqs') < CopiesIn(q, reqs)
                    /\ q.payment_status = "paid"
                    /\ q.transaction.user_id = users[i].id
                    /\ stripe[q.transaction.session_id] = "paid"
                    /\ FindTransaction(q.transaction.session_id).user_id
                            = users[i].id]_vars
    /\ [](\A i \in 1..Len(users) :
            users[i].is_premium =>
                \E k \in 1..Len(payment_transactions) :
                    /\ payment_transactions[k].user_id = users[i].id
                    /\ stripe[payment_transactions[k].session_id] = "paid")
    /\ [][\A q \in At("get_payment_status", "handler") :
            (/\ CopiesIn(q, reqs') < CopiesIn(q, reqs)
             /\ \/ FindTransaction(q.arg) = NoTransaction
                \/ FindTransaction(q.arg).user_id # q.current_user.id)
            => (/\ resp' = [op |-> "get_payment_status", arg |-> q.arg,
                            is_premium |-> q.current_user.is_premium,
                            status |-> 404, body |-> <<>>]
                /\ UNCHANGED <<users, study_plans, payment_transactions,
                               stripe>>)]_vars
    /\ [][/\ Len(users') >= Len(users)
          /\ \A i \in 1..Len(users) :
                users[i].is_premium => users'[i].is_premium]_vars

\* A user has become premium by a paid session, and the payment-status query
\* of another user for that session has been answered 404.
C23_Witness ==
    /\ resp.op = "get_payment_status"
    /\ resp.status = 404
    /\ ~resp.is_premium
    /\ FindTransaction(resp.arg) # NoTransaction
    /\ stripe[resp.arg] = "paid"
    /\ \E i \in 1..Len(users) :
            /\ users[i].is_premium
            /\ users[i].id = FindTransaction(resp.arg).user_id
    /\ \E i \in 1..Len(users) : ~users[i].is_premium

\* C24 (SpecServer): no two records of db.users have the same lower-cased
\* e-mail address; and when a register request has just been answered with
\* a token, its address was not registered before, so that it is the
\* address of exactly one user.
C24_UniqueEmails ==
    /\ \A i, j \in 1..Len(users) :
            lower(users[i].email) = lower(users[j].email) => i = j
    /\ (resp.op = "register" /\ resp.status = 200) =>
            Cardinality({i \in 1..Len(users) :
                            users[i].email = lower(resp.arg)}) = 1

====
